---- MODULE Spec2Model ----
(***************************************************************************)
(* Model of the parknav MCP server (build output of mcp-server.ts): the   *)
(* three database-backed tools saveParkingInfo, fetchOverpassData and     *)
(* getParkingDataForFrontend, the pg connection pool they share, and the  *)
(* two tables seattle_parking and enriched_parking.                       *)
(*                                                                         *)
(* Every `await` of a handler is one step.  The synchronous code between  *)
(* two awaits runs to completion on Node's single thread and is part of   *)
(* the step that resumes the handler.  Each awaited external operation    *)
(* (pool.connect, an HTTP request, a SQL statement) either resolves or    *)
(* rejects; the choice is the environment's.                               *)
(*                                                                         *)
(* The database is PostgreSQL at READ COMMITTED: a transaction's writes   *)
(* are private until COMMIT, and an INSERT ... ON CONFLICT on a key that  *)
(* another open transaction has written waits for that transaction.       *)
(* The `id SERIAL` column of enriched_parking is an unbounded counter     *)
(* that no handler reads except to pass it through; the position of a row *)
(* in the table stands for it.                                             *)
(***************************************************************************)
EXTENDS Integers, Sequences, FiniteSets, TLC

\* ---------------------------------------------------------------- bounds
NumInv == 2
PoolSize == 2
MaxFeatures == 2
MaxPlaces == 2

Inv == 1..NumInv
Conns == 1..PoolSize

NoClient == 0
Null == "NULL"

\* ------------------------------------------------------ program constants
DefaultRadius == 500
Confidence == 95
OverpassSource == "https://overpass-api.de/api/interpreter"

\* A JavaScript object is a record; an absent property is an absent field.
Has(o, f) == f \in DOMAIN o

\* ------------------------------------------------------------ tool inputs
Neighborhood == "Ballard"

\* a JavaScript number: a value, or NaN
Num(n) == [nan |-> FALSE, v |-> n]
NaN == [nan |-> TRUE, v |-> 0]

\* the arguments of a fetchOverpassData call as they arrive; radius may be
\* omitted
LatValues == {Num(47), NaN}
LonValues == {Num(-122), NaN}
RadiusValues == {Num(-1), Num(0), Num(250)}
RawArgs ==
    [lat : LatValues, lon : LonValues] \cup
    [lat : LatValues, lon : LonValues, radius : RadiusValues]
NoArgs == [lat |-> Num(0), lon |-> Num(0), radius |-> Num(DefaultRadius)]

\* z.number(): present and not NaN
ZNumber(o, f) == Has(o, f) /\ ~o[f].nan

\* z.number().default(500): an omitted value passes and becomes the default
ZNumberDefault(o, f) == Has(o, f) => ~o[f].nan

\* the input schema of fetchOverpassData applied to the raw arguments
FetchArgsValid(a) ==
    /\ ZNumber(a, "lat")
    /\ ZNumber(a, "lon")
    /\ ZNumberDefault(a, "radius")

FetchArgsParsed(a) ==
    [lat |-> a.lat, lon |-> a.lon,
     radius |-> IF Has(a, "radius") THEN a.radius ELSE Num(DefaultRadius)]

\* ---------------------------------------------------- Overpass responses
PointGeom == [type |-> "Point", coordinates |-> <<-122, 47>>]
PolygonGeom == [type |-> "Polygon", coordinates |-> <<-122, 47, -121, 48>>]

TagsA == [name |-> "Lot A", amenity |-> "parking", fee |-> "yes"]
TagsB == [amenity |-> "parking", access |-> "private"]

\* the features osmtogeojson can hand back; the last one has no geometry
Features ==
    { [id |-> 1, geometry |-> PointGeom, properties |-> TagsA],
      [id |-> 1, geometry |-> PointGeom, properties |-> TagsB],
      [id |-> 2, geometry |-> PolygonGeom, properties |-> TagsB],
      [id |-> 3, properties |-> TagsB] }

SeqsUpTo(S, n) == UNION { [1..k -> S] : k \in 0..n }

GeoPayloads == SeqsUpTo(Features, MaxFeatures)

\* retrievedAt = new Date().toISOString(): the wall clock, read once per call
Times == {1}

\* ---------------------------------------------------- SerpApi responses
\* a snippet is its text split into tokens
SnippetPriced == <<"$", "5", "/hr", "Open", "24 hours">>
SnippetPlain == <<"Covered", "lot">>

\* the places of a search response; the last one has no snippet
Places ==
    { [title |-> "Lot A", address |-> "1 Main St", snippet |-> SnippetPriced, link |-> "u1"],
      [title |-> "Lot B", address |-> "2 Pine St", snippet |-> SnippetPlain, link |-> "u1"],
      [title |-> "Lot C", address |-> "3 Oak St", link |-> "u2"] }

\* the decoded body: an object without places_results, or with the list
SearchPayloads ==
    { [search_metadata |-> "ok"] } \cup
    { [search_metadata |-> "ok", places_results |-> s] : s \in SeqsUpTo(Places, MaxPlaces) }

\* ------------------------------------------------------------ normalizers
NumberTokens == {"5", "12.50"}
HoursTokens == {"24 hours", "8am-6pm"}

\* /\$(\d+(\.\d{1,2})?)\/hr/ : positions where "$", a number and "/hr" meet
RateMatches(snippet) ==
    { j \in 1..Len(snippet) :
        /\ j + 2 <= Len(snippet)
        /\ snippet[j] = "$"
        /\ snippet[j + 1] \in NumberTokens
        /\ snippet[j + 2] = "/hr" }

\* /Open\s([\d\s\w\-:]+)/ : positions where "Open" is followed by such a run
HoursMatches(snippet) ==
    { j \in 1..Len(snippet) :
        /\ j + 1 <= Len(snippet)
        /\ snippet[j] = "Open"
        /\ snippet[j + 1] \in HoursTokens }

MinOf(S) == CHOOSE m \in S : \A n \in S : m <= n

\* extractRate: the number of the first match (as its text), or null
extractRate(snippet) ==
    IF RateMatches(snippet) = {} THEN Null
    ELSE snippet[MinOf(RateMatches(snippet)) + 1]

\* extractHours: the run after the first "Open", or null
extractHours(snippet) ==
    IF HoursMatches(snippet) = {} THEN Null
    ELSE snippet[MinOf(HoursMatches(snippet)) + 1]

\* null, as queryGoogleForParking returns it on failure
JsNull == [null |-> TRUE]
IsNull(x) == Has(x, "null")

\* snippet.match(...) on an undefined snippet throws a TypeError, out of
\* the map callback and out of parseParkingDetails
parseThrows(raw) ==
    /\ ~IsNull(raw)
    /\ Has(raw, "places_results")
    /\ \E j \in 1..Len(raw.places_results) : ~Has(raw.places_results[j], "snippet")

parseParkingDetails(raw, neighborhood) ==
    IF IsNull(raw) \/ ~Has(raw, "places_results") THEN <<>>
    ELSE [ j \in 1..Len(raw.places_results) |->
             LET place == raw.places_results[j] IN
             [name |-> place.title,
              address |-> place.address,
              hourlyRate |-> extractRate(place.snippet),
              hours |-> extractHours(place.snippet),
              neighborhood |-> neighborhood,
              sourceUrl |-> place.link] ]

\* !geometry || geometry.type !== "Point" || !geometry.coordinates
Skipped(feature) ==
    \/ ~Has(feature, "geometry")
    \/ feature.geometry.type # "Point"
    \/ ~Has(feature.geometry, "coordinates")

\* x || null for a string property
OrNull(o, f) == IF Has(o, f) /\ o[f] # "" THEN o[f] ELSE Null

\* the parameters of the enriched_parking upsert for one feature
EnrichedParams(feature, retrievedAt) ==
    [overpass_id |-> feature.id,
     latitude |-> feature.geometry.coordinates[2],
     longitude |-> feature.geometry.coordinates[1],
     name |-> OrNull(feature.properties, "name"),
     amenity |-> OrNull(feature.properties, "amenity"),
     source |-> OverpassSource,
     retrieved_at |-> retrievedAt,
     confidence |-> Confidence,
     other_tags |-> [k \in DOMAIN feature.properties \ {"name", "amenity"} |->
                        feature.properties[k]]]

\* the parameters of the seattle_parking upsert for one ParkingInfo
SeattleParams(info) ==
    [name |-> info.name,
     address |-> info.address,
     hourly_rate |-> info.hourlyRate,
     hours |-> info.hours,
     neighborhood |-> info.neighborhood,
     source_url |-> info.sourceUrl]

\* index of the first feature at or after `from` that is not skipped
RECURSIVE NextPoint(_, _)
NextPoint(features, from) ==
    IF from > Len(features) THEN from
    ELSE IF Skipped(features[from]) THEN NextPoint(features, from + 1)
    ELSE from

\* --------------------------------------------------------------- database
\* the upsert with other_tags left out of the SET list
UpsertEnrichedKeepTags(table, r) ==
    IF \E j \in 1..Len(table) : table[j].overpass_id = r.overpass_id
    THEN [ j \in 1..Len(table) |->
             IF table[j].overpass_id = r.overpass_id
             THEN [r EXCEPT !.other_tags = table[j].other_tags]
             ELSE table[j] ]
    ELSE Append(table, r)

\* the statement without its ON CONFLICT clause, on a table without the
\* unique constraint
InsertEnriched(table, r) == Append(table, r)

\* INSERT INTO enriched_parking ... ON CONFLICT (overpass_id) DO UPDATE SET ...
UpsertEnriched(table, r) ==
    IF \E j \in 1..Len(table) : table[j].overpass_id = r.overpass_id
    THEN [ j \in 1..Len(table) |->
             IF table[j].overpass_id = r.overpass_id
             THEN [table[j] EXCEPT !.latitude = r.latitude,
                                   !.longitude = r.longitude,
                                   !.name = r.name,
                                   !.amenity = r.amenity,
                                   !.source = r.source,
                                   !.retrieved_at = r.retrieved_at,
                                   !.confidence = r.confidence,
                                   !.other_tags = r.other_tags]
             ELSE table[j] ]
    ELSE Append(table, r)

\* INSERT INTO seattle_parking ... ON CONFLICT (source_url) DO UPDATE SET ...
UpsertSeattle(table, r) ==
    IF \E j \in 1..Len(table) : table[j].source_url = r.source_url
    THEN [ j \in 1..Len(table) |->
             IF table[j].source_url = r.source_url
             THEN [table[j] EXCEPT !.name = r.name,
                                   !.address = r.address,
                                   !.hourly_rate = r.hourly_rate,
                                   !.hours = r.hours,
                                   !.neighborhood = r.neighborhood]
             ELSE table[j] ]
    ELSE Append(table, r)

\* COMMIT: the transaction's upserts become visible, in statement order
RECURSIVE CommitEnriched(_, _)
CommitEnriched(table, writes) ==
    IF writes = <<>> THEN table
    ELSE CommitEnriched(UpsertEnriched(table, Head(writes)), Tail(writes))

RECURSIVE CommitSeattle(_, _)
CommitSeattle(table, writes) ==
    IF writes = <<>> THEN table
    ELSE CommitSeattle(UpsertSeattle(table, Head(writes)), Tail(writes))

Range(s) == { s[j] : j \in 1..Len(s) }

EnrichedKeys(table) == { r.overpass_id : r \in Range(table) }
SeattleKeys(table) == { r.source_url : r \in Range(table) }

\* SELECT * FROM enriched_parking mapped to GeoJSON features
ToFeature(row) ==
    [type |-> "Feature",
     geometry |-> [type |-> "Point", coordinates |-> <<row.longitude, row.latitude>>],
     properties |-> [k \in DOMAIN row \ {"latitude", "longitude"} |-> row[k]]]

\* ------------------------------------------------------------------ state
VARIABLES
    pc,          \* pc[i]: where invocation i is suspended
    tool,        \* tool[i]: the tool invocation i runs
    args,        \* args[i]: parsed arguments of fetchOverpassData
    payload,     \* payload[i]: geojsonData.features / parsedData
    stamp,       \* stamp[i]: retrievedAt
    idx,         \* idx[i]: index of the record whose upsert is awaited
    client,      \* client[i]: the pooled connection the handler holds
    result,      \* result[i]: what the handler returned or threw
    obs,         \* obs[i]: what invocation i has done so far (history)
    checkedOut,  \* connections checked out of the pool
    txOpen,      \* txOpen[c]: a transaction is open on connection c
    txWrites,    \* txWrites[c]: uncommitted upserts of that transaction
    txLocks,     \* txLocks[c]: keys that transaction holds row locks on
    tableExists, \* enriched_parking exists
    enriched,    \* committed rows of enriched_parking
    seattle,     \* committed rows of seattle_parking
    lastWrite,   \* history: per overpass_id, the row of the last commit
    hist         \* history: the call that committed last, for sequential runs

vars == <<pc, tool, args, payload, stamp, idx, client, result, obs,
          checkedOut, txOpen, txWrites, txLocks, tableExists, enriched, seattle,
          lastWrite, hist>>

invVars == <<pc, tool, args, payload, stamp, idx, client, result, obs>>
poolVars == <<checkedOut, txOpen, txWrites, txLocks>>
tableVars == <<tableExists, enriched, seattle>>
histVars == <<lastWrite, hist>>

NoResult == [kind |-> "none", count |-> 0, features |-> <<>>, stored |-> 0]
NoObs == [faulted |-> FALSE, acquired |-> FALSE, sent |-> FALSE, began |-> FALSE,
          failedInTx |-> FALSE, rollback |-> FALSE, written |-> 0,
          noPlaces |-> FALSE, overlapped |-> FALSE,
          partial |-> FALSE, aborted |-> FALSE]
NoWrites == [enriched |-> <<>>, seattle |-> <<>>]
NoLocks == [enriched |-> {}, seattle |-> {}]

NoHist == [on |-> FALSE, tool |-> "none", payload |-> <<>>, keys |-> {}, rows |-> 0,
           runs |-> 0]

Res(kind, count) == [kind |-> kind, count |-> count, features |-> <<>>, stored |-> 0]

\* the database is whatever the deployment finds: enriched_parking may not
\* have been created yet; seattle_parking is created outside this program
Start(h) ==
    /\ pc = [i \in Inv |-> "idle"]
    /\ tool = [i \in Inv |-> "none"]
    /\ args = [i \in Inv |-> NoArgs]
    /\ payload = [i \in Inv |-> <<>>]
    /\ stamp = [i \in Inv |-> 0]
    /\ idx = [i \in Inv |-> 0]
    /\ client = [i \in Inv |-> NoClient]
    /\ result = [i \in Inv |-> NoResult]
    /\ obs = [i \in Inv |-> NoObs]
    /\ checkedOut = {}
    /\ txOpen = [c \in Conns |-> FALSE]
    /\ txWrites = [c \in Conns |-> NoWrites]
    /\ txLocks = [c \in Conns |-> NoLocks]
    /\ tableExists \in BOOLEAN
    /\ enriched = <<>>
    /\ seattle = <<>>
    /\ lastWrite = <<>>
    /\ hist = h

Init == Start(NoHist)

\* ------------------------------------------------------------------- pool
\* pool.connect() resolves with an idle client when fewer than max are
\* checked out; otherwise the request waits in the pool's queue
PoolHasRoom == Cardinality(checkedOut) < PoolSize
IdleClient == MinOf(Conns \ checkedOut)

\* keys locked by transactions of other connections: an upsert of such a
\* key waits for that transaction to end
LockedEnriched(c) == UNION { txLocks[d].enriched : d \in Conns \ {c} }
LockedSeattle(c) == UNION { txLocks[d].seattle : d \in Conns \ {c} }

\* the transaction on connection c ends (COMMIT, ROLLBACK, or the failure of
\* either): its uncommitted rows and its locks are gone
EndTx(c) ==
    /\ txOpen' = [txOpen EXCEPT ![c] = FALSE]
    /\ txWrites' = [txWrites EXCEPT ![c] = NoWrites]
    /\ txLocks' = [txLocks EXCEPT ![c] = NoLocks]

\* a statement fails inside the transaction on connection c: the
\* transaction is aborted, its rows can no longer commit, and it keeps its
\* locks until it is ended
AbortTx(c) ==
    /\ txWrites' = [txWrites EXCEPT ![c] = NoWrites]
    /\ UNCHANGED <<txOpen, txLocks>>

\* the handler returns or throws: its locals go out of scope
Finish(i, res, o) ==
    /\ pc' = [pc EXCEPT ![i] = "done"]
    /\ result' = [result EXCEPT ![i] = res]
    /\ obs' = [obs EXCEPT ![i] = o]
    /\ payload' = [payload EXCEPT ![i] = <<>>]
    /\ stamp' = [stamp EXCEPT ![i] = 0]
    /\ idx' = [idx EXCEPT ![i] = 0]
    /\ client' = [client EXCEPT ![i] = NoClient]
    /\ UNCHANGED <<tool, args>>

\* the handler moves to its next await
Goto(i, where, o) ==
    /\ pc' = [pc EXCEPT ![i] = where]
    /\ obs' = [obs EXCEPT ![i] = o]

\* client.release()
Release(c) ==
    /\ checkedOut' = checkedOut \ {c}

\* where sequential runs are compared: the call that committed last, how
\* many times in a row it has committed (1 or 2), and the row count of its
\* table and its keys after the first of these
Remember(t, p, keys, rows) ==
    hist' = IF ~hist.on THEN hist
            ELSE IF hist.tool = t /\ hist.payload = p
            THEN [hist EXCEPT !.runs = 2]
            ELSE [on |-> TRUE, tool |-> t, payload |-> p, keys |-> keys, rows |-> rows,
                  runs |-> 1]

\* ------------------------------------------------------ the protocol layer
\* a call takes the lowest free slot: slots are interchangeable
Free(i) == pc[i] = "idle" /\ \A j \in 1..(i - 1) : pc[j] # "idle"

CallSave(i) ==
    /\ Free(i)
    /\ tool' = [tool EXCEPT ![i] = "saveParkingInfo"]
    /\ pc' = [pc EXCEPT ![i] = "s_http"]
    /\ obs' = [obs EXCEPT ![i].sent = TRUE]
    /\ UNCHANGED <<args, payload, stamp, idx, client, result>>
    /\ UNCHANGED <<poolVars, tableVars, histVars>>

\* the input schema is applied before the handler runs; a call that fails it
\* is answered with a validation error and the handler never runs
CallFetch(i, a) ==
    /\ Free(i)
    /\ tool' = [tool EXCEPT ![i] = "fetchOverpassData"]
    /\ args' = [args EXCEPT ![i] = FetchArgsParsed(a)]
    /\ IF FetchArgsValid(a)
       THEN /\ pc' = [pc EXCEPT ![i] = "f_connect"]
            /\ UNCHANGED result
       ELSE /\ pc' = [pc EXCEPT ![i] = "done"]
            /\ result' = [result EXCEPT ![i] = Res("invalid", 0)]
    /\ UNCHANGED <<payload, stamp, idx, client, obs>>
    /\ UNCHANGED <<poolVars, tableVars, histVars>>

CallGet(i) ==
    /\ Free(i)
    /\ tool' = [tool EXCEPT ![i] = "getParkingDataForFrontend"]
    /\ pc' = [pc EXCEPT ![i] = "g_connect"]
    /\ UNCHANGED <<args, payload, stamp, idx, client, result, obs>>
    /\ UNCHANGED <<poolVars, tableVars, histVars>>

\* the response has been delivered; the slot can take the next call
Return(i) ==
    /\ pc[i] = "done"
    /\ pc' = [pc EXCEPT ![i] = "idle"]
    /\ tool' = [tool EXCEPT ![i] = "none"]
    /\ args' = [args EXCEPT ![i] = NoArgs]
    /\ result' = [result EXCEPT ![i] = NoResult]
    /\ obs' = [obs EXCEPT ![i] = NoObs]
    /\ UNCHANGED <<payload, stamp, idx, client>>
    /\ UNCHANGED <<poolVars, tableVars, histVars>>

\* -------------------------------------------------------- saveParkingInfo
\* the search payload has no places_results, or an empty one
NoPlaces(body) == ~Has(body, "places_results") \/ Len(body.places_results) = 0

\* places_results holds a place without a snippet next to one that has one
PartlyMalformed(body) ==
    /\ Has(body, "places_results")
    /\ \E j \in 1..Len(body.places_results) : ~Has(body.places_results[j], "snippet")
    /\ \E j \in 1..Len(body.places_results) : Has(body.places_results[j], "snippet")

\* the handler without its empty check
NeverNothingParsed(parsedData) == FALSE

\* if (parsedData.length === 0)
NothingParsed(parsedData) == Len(parsedData) = 0

\* queryGoogleForParking resolves: null on any failure, the body otherwise;
\* then parseParkingDetails, the empty check and the call of pool.connect()
SaveHttp(i, ok, body) ==
    /\ pc[i] = "s_http"
    /\ LET raw == IF ok THEN body ELSE JsNull
           o == [obs[i] EXCEPT !.faulted = @ \/ ~ok \/ parseThrows(raw),
                               !.noPlaces = ok /\ NoPlaces(body),
                               !.partial = ok /\ PartlyMalformed(body),
                               !.aborted = parseThrows(raw)]
           parsedData == parseParkingDetails(raw, Neighborhood)
       IN IF parseThrows(raw)
          THEN Finish(i, Res("error", 0), o)
          ELSE IF NothingParsed(parsedData)
          THEN Finish(i, Res("nodata", 0), o)
          ELSE /\ Goto(i, "s_connect", o)
               /\ payload' = [payload EXCEPT ![i] = parsedData]
               /\ UNCHANGED <<tool, args, stamp, idx, client, result>>
    /\ UNCHANGED <<poolVars, tableVars, histVars>>

SaveConnect(i, ok) ==
    /\ pc[i] = "s_connect"
    /\ PoolHasRoom
    /\ IF ok
       THEN /\ Goto(i, "s_begin", [obs[i] EXCEPT !.acquired = TRUE])
            /\ client' = [client EXCEPT ![i] = IdleClient]
            /\ checkedOut' = checkedOut \cup {IdleClient}
            /\ UNCHANGED <<tool, args, payload, stamp, idx, result>>
       ELSE /\ Finish(i, Res("error", 0), [obs[i] EXCEPT !.faulted = TRUE])
            /\ UNCHANGED checkedOut
    /\ UNCHANGED <<txOpen, txWrites, txLocks, tableVars, histVars>>

SaveBegin(i, ok) ==
    /\ pc[i] = "s_begin"
    /\ IF ok
       THEN /\ Goto(i, IF Len(payload[i]) >= 1 THEN "s_upsert" ELSE "s_commit",
                    [obs[i] EXCEPT !.began = TRUE])
            /\ idx' = [idx EXCEPT ![i] = 1]
            /\ txOpen' = [txOpen EXCEPT ![client[i]] = TRUE]
            /\ UNCHANGED <<tool, args, payload, stamp, client, result>>
       ELSE /\ Finish(i, Res("error", 0), [obs[i] EXCEPT !.faulted = TRUE])
            /\ UNCHANGED txOpen
    /\ UNCHANGED <<checkedOut, txWrites, txLocks, tableVars, histVars>>

SaveUpsert(i, ok) ==
    /\ pc[i] = "s_upsert"
    /\ LET c == client[i]
           r == SeattleParams(payload[i][idx[i]])
       IN IF ok
          THEN /\ r.source_url \notin LockedSeattle(c)
               /\ txWrites' = [txWrites EXCEPT ![c].seattle = Append(@, r)]
               /\ txLocks' = [txLocks EXCEPT ![c].seattle = @ \cup {r.source_url}]
               /\ UNCHANGED txOpen
               /\ idx' = [idx EXCEPT ![i] = @ + 1]
               /\ Goto(i, IF idx[i] < Len(payload[i]) THEN "s_upsert" ELSE "s_commit",
                       [obs[i] EXCEPT !.written = @ + 1])
               /\ UNCHANGED <<tool, args, payload, stamp, client, result>>
          ELSE /\ Finish(i, Res("error", 0),
                         [obs[i] EXCEPT !.faulted = TRUE, !.failedInTx = TRUE])
               /\ AbortTx(c)
    /\ UNCHANGED <<checkedOut, tableVars, histVars>>

\* COMMIT resolves, then client.release() and the success message
SaveCommit(i, ok) ==
    /\ pc[i] = "s_commit"
    /\ LET c == client[i] IN
       IF ok
       THEN /\ seattle' = CommitSeattle(seattle, txWrites[c].seattle)
            /\ EndTx(c)
            /\ Release(c)
            /\ Remember(tool[i], payload[i], SeattleKeys(seattle'), Len(seattle'))
            /\ Finish(i, Res("saved", Len(payload[i])), obs[i])
       ELSE /\ Finish(i, Res("error", 0),
                      [obs[i] EXCEPT !.faulted = TRUE, !.failedInTx = TRUE])
            /\ EndTx(c)
            /\ UNCHANGED <<seattle, checkedOut, hist>>
    /\ UNCHANGED <<tableExists, enriched, lastWrite>>

\* ------------------------------------------------------ fetchOverpassData
\* pool.connect() is awaited outside the try block: a rejection leaves the
\* handler as an exception
FetchConnect(i, ok) ==
    /\ pc[i] = "f_connect"
    /\ PoolHasRoom
    /\ IF ok
       THEN /\ Goto(i, "f_create", [obs[i] EXCEPT !.acquired = TRUE])
            /\ client' = [client EXCEPT ![i] = IdleClient]
            /\ checkedOut' = checkedOut \cup {IdleClient}
            /\ UNCHANGED <<tool, args, payload, stamp, idx, result>>
       ELSE /\ Finish(i, Res("thrown", 0), [obs[i] EXCEPT !.faulted = TRUE])
            /\ UNCHANGED checkedOut
    /\ UNCHANGED <<txOpen, txWrites, txLocks, tableVars, histVars>>

\* CREATE TABLE IF NOT EXISTS enriched_parking resolves, then the POST to
\* the Overpass interpreter is sent
FetchCreate(i, ok) ==
    /\ pc[i] = "f_create"
    /\ IF ok
       THEN /\ tableExists' = TRUE
            /\ Goto(i, "f_http", [obs[i] EXCEPT !.sent = TRUE])
       ELSE /\ UNCHANGED tableExists
            /\ Goto(i, "f_rollback", [obs[i] EXCEPT !.faulted = TRUE, !.rollback = TRUE])
    /\ UNCHANGED <<tool, args, payload, stamp, idx, client, result>>
    /\ UNCHANGED <<poolVars, enriched, seattle, histVars>>

\* the response arrives; response.ok, json(), osmtogeojson(), new Date(),
\* and BEGIN is sent.  lat, lon and radius are not read after this point.
FetchHttp(i, ok, features, now) ==
    /\ pc[i] = "f_http"
    /\ IF ok
       THEN /\ Goto(i, "f_begin", obs[i])
            /\ payload' = [payload EXCEPT ![i] = features]
            /\ stamp' = [stamp EXCEPT ![i] = now]
       ELSE /\ Goto(i, "f_rollback", [obs[i] EXCEPT !.faulted = TRUE, !.rollback = TRUE])
            /\ UNCHANGED <<payload, stamp>>
    /\ args' = [args EXCEPT ![i] = NoArgs]
    /\ UNCHANGED <<tool, idx, client, result>>
    /\ UNCHANGED <<poolVars, tableVars, histVars>>

\* BEGIN resolves; the loop runs to the first feature that is not skipped
\* and sends its upsert, or to its end and sends COMMIT
FetchBegin(i, ok) ==
    /\ pc[i] = "f_begin"
    /\ IF ok
       THEN /\ txOpen' = [txOpen EXCEPT ![client[i]] = TRUE]
            /\ idx' = [idx EXCEPT ![i] = NextPoint(payload[i], 1)]
            /\ Goto(i, IF idx'[i] <= Len(payload[i]) THEN "f_upsert" ELSE "f_commit",
                    [obs[i] EXCEPT !.began = TRUE])
       ELSE /\ UNCHANGED <<txOpen, idx>>
            /\ Goto(i, "f_rollback", [obs[i] EXCEPT !.faulted = TRUE, !.rollback = TRUE])
    /\ UNCHANGED <<tool, args, payload, stamp, client, result>>
    /\ UNCHANGED <<checkedOut, txWrites, txLocks, tableVars, histVars>>

\* one upsert resolves; the loop runs on to the next one or to COMMIT
FetchUpsert(i, ok) ==
    /\ pc[i] = "f_upsert"
    /\ LET c == client[i]
           r == EnrichedParams(payload[i][idx[i]], stamp[i])
       IN IF ok
          THEN /\ r.overpass_id \notin LockedEnriched(c)
               /\ txWrites' = [txWrites EXCEPT ![c].enriched = Append(@, r)]
               /\ txLocks' = [txLocks EXCEPT ![c].enriched = @ \cup {r.overpass_id}]
               /\ UNCHANGED txOpen
               /\ idx' = [idx EXCEPT ![i] = NextPoint(payload[i], @ + 1)]
               /\ Goto(i, IF idx'[i] <= Len(payload[i]) THEN "f_upsert" ELSE "f_commit",
                       [obs[i] EXCEPT !.written = @ + 1])
          ELSE /\ AbortTx(c)
               /\ UNCHANGED idx
               /\ Goto(i, "f_rollback",
                       [obs[i] EXCEPT !.faulted = TRUE, !.failedInTx = TRUE,
                                      !.rollback = TRUE])
    /\ UNCHANGED <<tool, args, payload, stamp, client, result>>
    /\ UNCHANGED <<checkedOut, tableVars, histVars>>

\* the row each key is left with by a transaction's upserts
LastWrites(writes, old) ==
    [ k \in DOMAIN old \cup { w.overpass_id : w \in Range(writes) } |->
        IF \E j \in 1..Len(writes) : writes[j].overpass_id = k
        THEN writes[CHOOSE j \in 1..Len(writes) :
                      /\ writes[j].overpass_id = k
                      /\ \A m \in (j + 1)..Len(writes) : writes[m].overpass_id # k]
        ELSE old[k] ]

\* some of these invocations of fetchOverpassData is inside its transaction
InTransaction(others) ==
    \E j \in others : pc[j] \in {"f_upsert", "f_commit"}

\* COMMIT resolves: the success message, then finally { client.release() }
FetchCommit(i, ok) ==
    /\ pc[i] = "f_commit"
    /\ LET c == client[i] IN
       IF ok
       THEN /\ enriched' = CommitEnriched(enriched, txWrites[c].enriched)
            /\ lastWrite' = LastWrites(txWrites[c].enriched, lastWrite)
            /\ EndTx(c)
            /\ Release(c)
            /\ Remember(tool[i], payload[i], EnrichedKeys(enriched'), Len(enriched'))
            /\ Finish(i, Res("ingested", Len(payload[i])),
                      [obs[i] EXCEPT !.overlapped = InTransaction(Inv \ {i})])
       ELSE /\ Goto(i, "f_rollback",
                    [obs[i] EXCEPT !.faulted = TRUE, !.failedInTx = TRUE,
                                   !.rollback = TRUE])
            /\ EndTx(c)
            /\ UNCHANGED <<enriched, lastWrite, checkedOut, hist>>
            /\ UNCHANGED <<tool, args, payload, stamp, idx, client, result>>
    /\ UNCHANGED <<tableExists, seattle>>

\* catch: ROLLBACK resolves and the error message is returned, or it rejects
\* and the rejection leaves the handler; finally { client.release() } either
\* way.  A connection that cannot run ROLLBACK is gone, and its transaction
\* with it.
FetchRollback(i, ok) ==
    /\ pc[i] = "f_rollback"
    /\ EndTx(client[i])
    /\ Release(client[i])
    /\ Finish(i, Res(IF ok THEN "error" ELSE "thrown", 0), obs[i])
    /\ UNCHANGED <<tableVars, histVars>>

\* ---------------------------------------------- getParkingDataForFrontend
GetConnect(i, ok) ==
    /\ pc[i] = "g_connect"
    /\ PoolHasRoom
    /\ IF ok
       THEN /\ Goto(i, "g_select", [obs[i] EXCEPT !.acquired = TRUE])
            /\ client' = [client EXCEPT ![i] = IdleClient]
            /\ checkedOut' = checkedOut \cup {IdleClient}
            /\ UNCHANGED <<tool, args, payload, stamp, idx, result>>
       ELSE /\ Finish(i, Res("thrown", 0), [obs[i] EXCEPT !.faulted = TRUE])
            /\ UNCHANGED checkedOut
    /\ UNCHANGED <<txOpen, txWrites, txLocks, tableVars, histVars>>

\* SELECT * FROM enriched_parking resolves with the committed rows, or
\* rejects: always when the table does not exist; finally { release }
GetSelect(i, ok) ==
    /\ pc[i] = "g_select"
    /\ Release(client[i])
    /\ IF ok /\ tableExists
       THEN Finish(i, [kind |-> "resource", count |-> Len(enriched),
                       features |-> [ j \in 1..Len(enriched) |-> ToFeature(enriched[j]) ],
                       stored |-> Len(enriched)],
                   obs[i])
       ELSE Finish(i, [Res("error", 0) EXCEPT !.stored = Len(enriched)],
                   [obs[i] EXCEPT !.faulted = @ \/ ~ok])
    /\ UNCHANGED <<txOpen, txWrites, txLocks, tableVars, histVars>>

\* ------------------------------------------------------------------- spec
Step(i) ==
    \/ \E ok \in BOOLEAN : \E body \in SearchPayloads : SaveHttp(i, ok, body)
    \/ \E ok \in BOOLEAN : SaveConnect(i, ok)
    \/ \E ok \in BOOLEAN : SaveBegin(i, ok)
    \/ \E ok \in BOOLEAN : SaveUpsert(i, ok)
    \/ \E ok \in BOOLEAN : SaveCommit(i, ok)
    \/ \E ok \in BOOLEAN : FetchConnect(i, ok)
    \/ \E ok \in BOOLEAN : FetchCreate(i, ok)
    \/ \E ok \in BOOLEAN : \E features \in GeoPayloads : \E now \in Times :
          FetchHttp(i, ok, features, now)
    \/ \E ok \in BOOLEAN : FetchBegin(i, ok)
    \/ \E ok \in BOOLEAN : FetchUpsert(i, ok)
    \/ \E ok \in BOOLEAN : FetchCommit(i, ok)
    \/ \E ok \in BOOLEAN : FetchRollback(i, ok)
    \/ \E ok \in BOOLEAN : GetConnect(i, ok)
    \/ \E ok \in BOOLEAN : GetSelect(i, ok)

Call(i) ==
    \/ CallSave(i)
    \/ \E a \in RawArgs : CallFetch(i, a)
    \/ CallGet(i)

Next == \E i \in Inv : Call(i) \/ Step(i) \/ Return(i)

Spec == Init /\ [][Next]_vars

\* one call at a time, each after the one before has been answered, with
\* the history of commits kept
SeqInit == Start([NoHist EXCEPT !.on = TRUE])

SeqNext == Call(1) \/ Step(1) \/ Return(1)

SeqSpec == SeqInit /\ [][SeqNext]_vars

\* a handler whose awaited operation has settled is resumed by the event
\* loop; every HTTP request and every statement settles
FairSpec == Init /\ [][SeqNext]_vars /\ WF_vars(Step(1))

\* ----------------------------------------------------------------- claims
Finished(i) == pc[i] \in {"idle", "done"}
Returned(i) == pc[i] = "done"

\* C1: once every invocation has finished, no connection is checked out of
\* the pool: each handler released its connection on every exit path.
C1_AllReleased == (\A i \in Inv : Finished(i)) => checkedOut = {}

\* C2: a call in which a statement failed after BEGIN has issued ROLLBACK on
\* its connection.
C2_RollbackOnFailure ==
    \A i \in Inv : (Returned(i) /\ obs[i].failedInTx) => obs[i].rollback

\* C3: a call during which a component failed returns the failure envelope:
\* the error does not leave the handler as an exception, and the call does
\* not answer with a success or a no-results message.
C3_FailureEnvelope ==
    \A i \in Inv : (Returned(i) /\ obs[i].faulted) => result[i].kind = "error"

\* C4: enriched_parking never holds two rows with one overpass_id, and once
\* every invocation has finished the row of each identifier is, in every
\* field, the row written by the invocation that committed it last.
C4_OneRowLastWins ==
    /\ \A j, k \in 1..Len(enriched) :
          enriched[j].overpass_id = enriched[k].overpass_id => j = k
    /\ (\A i \in Inv : Finished(i)) =>
          \A id \in DOMAIN lastWrite :
             \E j \in 1..Len(enriched) : enriched[j] = lastWrite[id]

\* two fetchOverpassData calls whose transactions overlapped have both
\* committed the shared identifier, the later one without a name
C4_Witness ==
    /\ \A i \in {1, 2} :
          /\ tool[i] = "fetchOverpassData"
          /\ Returned(i)
          /\ result[i].kind = "ingested"
          /\ obs[i].written >= 1
    /\ obs[1].overlapped \/ obs[2].overlapped
    /\ Len(enriched) = 1
    /\ enriched[1].name = Null

\* C5: when the call that committed last had already committed the same
\* payload just before, its table has the row count (and, for
\* enriched_parking, the key set) it had after the first of the two runs.
C5_Idempotent ==
    hist.runs = 2 =>
       /\ hist.tool = "fetchOverpassData" =>
             /\ Len(enriched) = hist.rows
             /\ EnrichedKeys(enriched) = hist.keys
       /\ hist.tool = "saveParkingInfo" => Len(seattle) = hist.rows

\* the same payload with a point feature has been ingested twice in a row
C5_Witness ==
    /\ hist.runs = 2
    /\ hist.tool = "fetchOverpassData"
    /\ hist.rows >= 1

\* C6: every invocation that has started eventually returns.
C6_Terminates == \A i \in Inv : (~Finished(i)) ~> Returned(i)

\* C7: a saveParkingInfo call whose search payload has no places_results, or
\* an empty one, answers "No parking data found" and has acquired no
\* connection and issued no BEGIN and no INSERT.
C7_NoPersistence ==
    \A i \in Inv :
       (Returned(i) /\ obs[i].noPlaces) =>
          /\ result[i].kind = "nodata"
          /\ ~obs[i].acquired
          /\ ~obs[i].began
          /\ obs[i].written = 0
          /\ client[i] = NoClient

\* a saveParkingInfo call has returned on such a payload
C7_Witness ==
    \E i \in Inv :
       /\ tool[i] = "saveParkingInfo"
       /\ Returned(i)
       /\ obs[i].noPlaces
       /\ result[i].kind = "nodata"

\* C11: a saveParkingInfo call whose payload holds a result without a snippet
\* next to well-formed results does not abort normalization of the batch:
\* parseParkingDetails does not throw, and a call that reports success has
\* persisted the other results.
C11_RecordsIndependent ==
    \A i \in Inv :
       (Returned(i) /\ obs[i].partial) =>
          /\ ~obs[i].aborted
          /\ (result[i].kind = "saved" => obs[i].written >= 1)

\* C8: the count in fetchOverpassData's success message is the number of
\* records the call wrote.
C8_CountIsWritten ==
    \A i \in Inv :
       (Returned(i) /\ result[i].kind = "ingested") => result[i].count = obs[i].written

\* C9: getParkingDataForFrontend, when no component failed, answers with a
\* resource holding one feature per stored row: none when nothing is stored.
C9_EmptyCollection ==
    \A i \in Inv :
       (tool[i] = "getParkingDataForFrontend" /\ Returned(i) /\ ~obs[i].faulted) =>
          /\ result[i].kind = "resource"
          /\ Len(result[i].features) = result[i].stored

\* C10: a fetchOverpassData call whose radius is zero or negative, or whose
\* latitude or longitude is NaN, is answered with a validation error, and
\* has sent no request and acquired no connection.
C10_Rejected ==
    \A i \in Inv :
       ( /\ tool[i] = "fetchOverpassData"
         /\ args[i] # NoArgs
         /\ \/ args[i].radius.v <= 0
            \/ args[i].lat.nan
            \/ args[i].lon.nan ) =>
          /\ ~obs[i].sent
          /\ ~obs[i].acquired
          /\ Returned(i) => result[i].kind = "invalid"

====
